---- MODULE Spec2Model ----
(***************************************************************************)
(* xxsynth: the MIDI-over-loopback bridge and the engine lifecycle.        *)
(*                                                                         *)
(*   xxsynth-app/src/audio.rs   AudioEngineHandle::stop, spawn_audio_thread *)
(*   xxsynth-app/src/main.rs    XXSynthApp (automatic start, restart, stop) *)
(*   xxsynth-winmm/src/lib.rs   modMessage (the driver's packet emitter)    *)
(*                                                                         *)
(* Two threads matter: the controlling (UI) thread, whose position is cpc, *)
(* and the worker threads spawned by spawn_audio_thread, one record each   *)
(* in workers.  load_progress is the Arc<Mutex<f32>> shared by both; its   *)
(* values are kept as exact fractions num/den.                             *)
(***************************************************************************)
EXTENDS Integers, Sequences, FiniteSets, TLC

\* ---------------------------------------------------------------- bounds
MaxBanks == 2          \* longest soundfont list the UI builds
MaxCalls == 3          \* calls of spawn_audio_thread in one behaviour
MaxStopCalls == 3      \* calls of stop() by a client of the handle API
MaxAudio == 1          \* audio events one worker forwards
MaxWire == 1           \* datagrams of the driver in flight

\* ------------------------------------------------------- input domains
Banks == {"A.sf2", "B.sf2"}
Ports == {44444, 44445}
ChannelChoices == {16, 64}

RECURSIVE SeqsUpTo(_, _)
SeqsUpTo(S, n) ==
    IF n = 0 THEN {<<>>}
    ELSE LET shorter == SeqsUpTo(S, n - 1)
         IN  shorter \cup {Append(s, x) : s \in shorter, x \in S}

BankLists == SeqsUpTo(Banks, MaxBanks)

\* host requests to the driver: device ids and short MIDI messages (a DWORD:
\* status in bits 0-7, data1 in bits 8-15, data2 in bits 16-23)
DeviceIds == {0, 3, 4, 255}
MidiMsg(status, data1, data2, high) ==
    status + 256 * data1 + 65536 * data2 + 16777216 * high
ShortMessages ==
    { MidiMsg(144, 60, 100, 0),      \* note on, channel 0
      MidiMsg(144, 60, 0, 0),        \* note on with velocity 0
      MidiMsg(128, 60, 100, 0),      \* note off
      MidiMsg(159, 127, 255, 1),     \* note on, channel 15, bits 24-31 set
      MidiMsg(176, 60, 100, 0),      \* control change
      MidiMsg(240, 60, 100, 0),      \* system message
      MidiMsg(127, 60, 100, 0) }     \* no status byte

\* datagrams of other local senders: empty, too short, too long
StrayDatagrams == { <<>>, <<0, 144, 61>>, <<0, 144, 62, 100, 9>> }

\* datagrams that arrive on the listen socket while the lifecycle is explored:
\* a note-on packet [port, status, data1, data2] and one of the wrong length
Datagrams == { <<0, 144, 60, 100>>, <<0, 144, 60>> }

\* ------------------------------------------------------------- progress
\* an f32 in [0, 1] kept as the fraction num/den
Frac(n, d) == [num |-> n, den |-> d]
PLeq(a, b) == a.num * b.den <= b.num * a.den
PEq(a, b) == a.num * b.den = b.num * a.den
PLt(a, b) == a.num * b.den < b.num * a.den

ProgressZero == Frac(0, 100)
ProgressOne == Frac(100, 100)
\* the cell handed to spawn_audio_thread (audio.rs:37) starts at 0.0
InitialProgress == ProgressZero

ProgressSetup_tenth == Frac(10, 100)
ProgressSetup == Frac(5, 100)                     \* *p = 0.05
ProgressNoBanks == Frac(95, 100)                  \* *p = 0.95
ProgressReady_stuck == Frac(95, 100)
ProgressReady == Frac(100, 100)                   \* *p = 1.0
ProgressAfterBank_nodiv(i, total_sfs) == Frac(5 + 90 * (i + 1), 100)
\* *p = 0.05 + (0.90 * ((i + 1) as f32 / total_sfs as f32)), i zero-based
ProgressAfterBank(i, total_sfs) == Frac(5 * total_sfs + 90 * (i + 1), 100 * total_sfs)

\* ---------------------------------------------------------------- state
VARIABLES
    soundfonts,        \* XXSynthApp.soundfonts
    realtime_config,   \* XXSynthApp.realtime_config
    audio_handle,      \* XXSynthApp.audio_handle (None: id 0)
    status_message,    \* XXSynthApp.status_message
    cpc,               \* position of the controlling thread
    handle,            \* the handle taken out of audio_handle by a click handler
    load_progress,     \* Arc<Mutex<f32>>
    workers,           \* worker id -> the thread's state
    is_running,        \* worker id -> Arc<AtomicBool>
    sockets,           \* UDP port on 127.0.0.1 -> who has it bound
    settings_file,     \* xxsynth_settings.json
    console,           \* number of lines "音频引擎已停止。" printed by stop()
    spawnCalls,        \* calls of spawn_audio_thread so far
    spawnResult,       \* what the last call returned
    stopCalls,         \* calls of stop() so far
    SOCKET,            \* the driver's static SOCKET: Option<UdpSocket>
    wire,              \* datagrams the driver has sent that are not yet received
    mmresult           \* the last call of modMessage: its u_msg, what it returned

vars == <<soundfonts, realtime_config, audio_handle, status_message, cpc, handle,
          load_progress, workers, is_running, sockets, settings_file, console,
          spawnCalls, spawnResult, stopCalls, SOCKET, wire, mmresult>>

WorkerIds == 1..MaxCalls

\* lib.rs:35  the driver module not loaded, or loaded and never opened
DriverNotLoaded ==
    /\ SOCKET = "None"
    /\ wire = {}
    /\ mmresult = [u_msg |-> 0, code |-> 0]

None == [id |-> 0, thread_handle |-> FALSE]
SomeHandle(w) == [id |-> w, thread_handle |-> TRUE]

FreePort == <<"free", 0>>
OtherProcess == <<"other", 0>>
HeldBy(w) == <<"worker", w>>

NoConfig == [udp_port |-> 0, total_channels |-> 0, render_window_ms |-> 0,
             thread_count |-> 0, interpolator |-> "Nearest",
             ignore_velocity_min |-> 0, ignore_velocity_max |-> 0]
EmptyBuf == <<0, 0, 0, 0>>

Blank(pc) ==
    [pc |-> pc, config |-> NoConfig, soundfonts |-> <<>>, i |-> 0,
     loaded_sfs |-> <<>>, outcome |-> <<>>, sent |-> <<>>, buf |-> EmptyBuf,
     size |-> 0, dgram |-> <<>>, forwarded |-> <<>>, written |-> <<>>,
     late |-> 0, held |-> {}]

NotSpawned == Blank("none")
Exited == Blank("exited")

NewWorker_stale(config, sfs) == [Blank("setup") EXCEPT !.soundfonts = sfs]
\* the closure's captures and locals when thread::spawn returns
NewWorker(config, sfs) ==
    [Blank("setup") EXCEPT !.config = config, !.soundfonts = sfs]

LoadingPcs == {"setup", "banks", "assign", "ready"}
LoopPcs == {"loop", "recv"}
Alive(w) == workers[w].pc \in LoadingPcs \cup LoopPcs

\* ------------------------------------------------- events sent to the synth
ConfigEvent(ch, sfs) ==
    [channel |-> ch, kind |-> "SetSoundfonts", key |-> 0, vel |-> 0, sfs |-> sfs]
NoteOn(ch, key, vel) ==
    [channel |-> ch, kind |-> "NoteOn", key |-> key, vel |-> vel, sfs |-> <<>>]
NoteOff(ch, key) ==
    [channel |-> ch, kind |-> "NoteOff", key |-> key, vel |-> 0, sfs |-> <<>>]

IsAudio(e) == e.kind \in {"NoteOn", "NoteOff"}
AudioCount(sent) == Len(SelectSeq(sent, IsAudio))

\* status_byte & 0x0F and status_byte & 0xF0 on a u8
LowNibble_shifted(b) == b \div 16
LowNibble(b) == b % 16
HighNibble(b) == b - (b % 16)

TargetChannel_noport(port_index, status_byte) == LowNibble(status_byte)
\* (port_index as u32 * 16) + original_channel as u32
TargetChannel(port_index, status_byte) == port_index * 16 + LowNibble(status_byte)

\* if target_channel >= config.total_channels { continue; }
OutOfRange_strict(target_channel, total_channels) == target_channel > total_channels
OutOfRange(target_channel, total_channels) == target_channel >= total_channels

ChannelEventOf_velzero(status_byte, data1, data2, target_channel) ==
    IF HighNibble(status_byte) = 144
        THEN <<NoteOn(target_channel, data1, data2)>>
    ELSE IF HighNibble(status_byte) = 128
        THEN <<NoteOff(target_channel, data1)>>
    ELSE <<>>
ChannelEventOf_swapped(status_byte, data1, data2, target_channel) ==
    IF HighNibble(status_byte) = 144 /\ data2 > 0
        THEN <<NoteOn(target_channel, data2, data1)>>
    ELSE IF HighNibble(status_byte) \in {128, 144}
        THEN <<NoteOff(target_channel, data1)>>
    ELSE <<>>
ChannelEventOf_catchall(status_byte, data1, data2, target_channel) ==
    IF HighNibble(status_byte) = 144 /\ data2 > 0
        THEN <<NoteOn(target_channel, data1, data2)>>
    ELSE <<NoteOff(target_channel, data1)>>
\* the match on status_byte & 0xF0: zero or one event
ChannelEventOf(status_byte, data1, data2, target_channel) ==
    IF HighNibble(status_byte) = 144 /\ data2 > 0
        THEN <<NoteOn(target_channel, data1, data2)>>
    ELSE IF HighNibble(status_byte) \in {128, 144}
        THEN <<NoteOff(target_channel, data1)>>
    ELSE <<>>

\* what one received 4-byte packet makes the worker send
PacketEvents(buf, total_channels) ==
    LET port_index == buf[1]
        status_byte == buf[2]
        data1 == buf[3]
        data2 == buf[4]
    IN  IF status_byte >= 128 /\ status_byte < 240
        THEN IF OutOfRange(TargetChannel(port_index, status_byte), total_channels)
             THEN <<>>
             ELSE ChannelEventOf(status_byte, data1, data2,
                                 TargetChannel(port_index, status_byte))
        ELSE <<>>

MapperEvents_filtered(buf, config) ==
    LET events == PacketEvents(buf, config.total_channels)
    IN  IF /\ events # <<>>
           /\ events[1].kind = "NoteOn"
           /\ events[1].vel >= config.ignore_velocity_min
           /\ events[1].vel <= config.ignore_velocity_max
        THEN <<>>
        ELSE events
\* audio.rs:121-150  the mapper inside the closure, which has all of config in
\* reach and reads config.total_channels
MapperEvents(buf, config) == PacketEvents(buf, config.total_channels)

\* audio.rs:115-119  the quadruple read from the buffer when size == 4
Decode(buf, size) ==
    IF size = 4 THEN <<buf[1], buf[2], buf[3], buf[4]>> ELSE <<>>

\* recv_from into a 4-byte buffer: the bytes that fit are copied
Received(buf, d) ==
    [k \in 1..4 |-> IF k <= Len(d) THEN d[k] ELSE buf[k]]

\* the results recv_from can give for datagram d: Ok(size) (size 0 stands for
\* Err).  A datagram longer than the buffer is cut to 4 bytes where the
\* platform truncates, and is an error (WSAEMSGSIZE) on Windows.
RecvSizes(d) == IF Len(d) > 4 THEN {0, 4} ELSE {Len(d)}

\* ------------------------------------------------------------ the worker
\* for ch in 0..config.total_channels { synth.send_event(SetSoundfonts(loaded_sfs)) }
AssignEvents_shifted(loaded_sfs, total_channels) ==
    IF loaded_sfs # <<>>
    THEN [k \in 1..total_channels |-> ConfigEvent(k, loaded_sfs)]
    ELSE <<>>
AssignEvents(loaded_sfs, total_channels) ==
    IF loaded_sfs # <<>>
    THEN [k \in 1..total_channels |-> ConfigEvent(k - 1, loaded_sfs)]
    ELSE <<>>

LoadedAfter_prepend(loaded_sfs, sf_path, ok) ==
    IF ok THEN <<sf_path>> \o loaded_sfs ELSE loaded_sfs
\* loaded_sfs after SampleSoundfont::new returned ok (TRUE) or an error
LoadedAfter(loaded_sfs, sf_path, ok) ==
    IF ok THEN Append(loaded_sfs, sf_path) ELSE loaded_sfs

PcAfterBank_abort(ok, i, total_sfs) ==
    IF ~ok THEN "exited" ELSE IF i + 1 = total_sfs THEN "assign" ELSE "banks"
\* audio.rs:76-85  a bank that fails to load is logged and the loop goes on
PcAfterBank(ok, i, total_sfs) == IF i + 1 = total_sfs THEN "assign" ELSE "banks"

WriteProgress(w, p, next) ==
    /\ load_progress' = p
    /\ workers' = [workers EXCEPT ![w] = [next EXCEPT !.written = Append(@, p)]]

\* audio.rs:52  *p = 0.05, then the synth is opened
WSetup(w) ==
    /\ workers[w].pc = "setup"
    /\ WriteProgress(w, ProgressSetup, [workers[w] EXCEPT !.pc = "banks"])
    /\ UNCHANGED <<SOCKET, wire, mmresult, soundfonts, realtime_config, audio_handle, status_message, cpc, settings_file,
                   handle, is_running, sockets, console, spawnCalls, spawnResult,
                   stopCalls>>

\* audio.rs:74-85  one iteration of the bank loop
WLoadBank(w) ==
    LET me == workers[w]
        total_sfs == Len(me.soundfonts)
    IN  /\ me.pc = "banks"
        /\ total_sfs > 0
        /\ me.i < total_sfs
        /\ \E ok \in BOOLEAN :
              WriteProgress(w, ProgressAfterBank(me.i, total_sfs),
                  [me EXCEPT !.loaded_sfs = LoadedAfter(@, me.soundfonts[me.i + 1], ok),
                             !.outcome = Append(@, ok),
                             !.i = me.i + 1,
                             !.pc = PcAfterBank(ok, me.i, total_sfs)])
        /\ UNCHANGED <<SOCKET, wire, mmresult, soundfonts, realtime_config, audio_handle, status_message, cpc, settings_file,
                       handle, is_running, sockets, console, spawnCalls, spawnResult,
                       stopCalls>>

\* audio.rs:86-89  no bank configured: *p = 0.95
WNoBanks(w) ==
    /\ workers[w].pc = "banks"
    /\ Len(workers[w].soundfonts) = 0
    /\ WriteProgress(w, ProgressNoBanks, [workers[w] EXCEPT !.pc = "assign"])
    /\ UNCHANGED <<SOCKET, wire, mmresult, soundfonts, realtime_config, audio_handle, status_message, cpc, settings_file,
                   handle, is_running, sockets, console, spawnCalls, spawnResult,
                   stopCalls>>

\* audio.rs:91-102  the instrument list goes to every channel
WAssign(w) ==
    LET me == workers[w]
    IN  /\ me.pc = "assign"
        /\ workers' = [workers EXCEPT ![w] =
              [me EXCEPT !.sent = AssignEvents(me.loaded_sfs, me.config.total_channels),
                         !.pc = "ready"]]
        /\ UNCHANGED <<SOCKET, wire, mmresult, soundfonts, realtime_config, audio_handle, status_message, cpc, settings_file,
                       handle, load_progress, is_running, sockets, console,
                       spawnCalls, spawnResult, stopCalls>>

\* audio.rs:104-110  *p = 1.0
WReady(w) ==
    /\ workers[w].pc = "ready"
    /\ WriteProgress(w, ProgressReady, [workers[w] EXCEPT !.pc = "loop"])
    /\ UNCHANGED <<SOCKET, wire, mmresult, soundfonts, realtime_config, audio_handle, status_message, cpc, settings_file,
                   handle, is_running, sockets, console, spawnCalls, spawnResult,
                   stopCalls>>

\* receive attempts this worker has completed after its flag was cleared
LateAfter(w) == IF is_running[w] THEN workers[w].late ELSE workers[w].late + 1

LoopContinues_dowhile(w) == is_running[w] \/ workers[w].late = 0
\* the loop condition is_running_clone.load(Relaxed)
LoopContinues(w) == is_running[w]

\* audio.rs:113  while is_running: go on to recv_from, or leave the loop; the
\* closure then returns and drops the socket and the synth
WLoopCheck(w) ==
    /\ workers[w].pc = "loop"
    /\ IF LoopContinues(w)
       THEN /\ workers' = [workers EXCEPT ![w].pc = "recv"]
            /\ UNCHANGED sockets
       ELSE /\ workers' = [workers EXCEPT ![w] = [Exited EXCEPT !.late = workers[w].late]]
            /\ sockets' = [sockets EXCEPT ![workers[w].config.udp_port] = FreePort]
    /\ UNCHANGED <<SOCKET, wire, mmresult, soundfonts, realtime_config, audio_handle, status_message, cpc, settings_file,
                   handle, load_progress, is_running, console, spawnCalls,
                   spawnResult, stopCalls>>

\* audio.rs:114-152  recv_from times out
WRecvTimeout(w) ==
    /\ workers[w].pc = "recv"
    /\ workers' = [workers EXCEPT ![w] =
          [@ EXCEPT !.size = 0, !.dgram = <<>>, !.forwarded = <<>>,
                    !.late = LateAfter(w), !.pc = "loop"]]
    /\ UNCHANGED <<SOCKET, wire, mmresult, soundfonts, realtime_config, audio_handle, status_message, cpc, settings_file,
                   handle, load_progress, is_running, sockets, console,
                   spawnCalls, spawnResult, stopCalls>>

\* audio.rs:114-152  one iteration of the loop body in which recv_from returns
\* for datagram d
Recv(w, d) ==
    LET me == workers[w]
    IN  \E size \in RecvSizes(d) :
           LET buf == Received(me.buf, d)
               events == IF Decode(buf, size) # <<>>
                         THEN MapperEvents(Decode(buf, size), me.config)
                         ELSE <<>>
           IN  /\ AudioCount(me.sent) + Len(events) <= MaxAudio
               /\ workers' = [workers EXCEPT ![w] =
                     [me EXCEPT !.buf = buf, !.size = size, !.dgram = d,
                                !.forwarded = events, !.late = LateAfter(w),
                                !.sent = @ \o events, !.pc = "loop"]]

\* audio.rs:114-152  a datagram from some local sender arrives
WRecv(w) ==
    LET me == workers[w]
    IN  /\ me.pc = "recv"
        /\ \E d \in Datagrams : Recv(w, d)
        /\ UNCHANGED <<SOCKET, wire, mmresult, soundfonts, realtime_config, audio_handle, status_message, cpc, settings_file,
                       handle, load_progress, is_running, sockets, console,
                       spawnCalls, spawnResult, stopCalls>>

\* audio.rs:114-152  a datagram the driver sent to this worker's port arrives
WRecvWire(w) ==
    LET me == workers[w]
    IN  /\ me.pc = "recv"
        /\ \E m \in wire :
              /\ m.port = me.config.udp_port
              /\ Recv(w, m.payload)
              /\ wire' = wire \ {m}
        /\ UNCHANGED <<SOCKET, mmresult, soundfonts, realtime_config, audio_handle,
                       status_message, cpc, settings_file, handle, load_progress,
                       is_running, sockets, console, spawnCalls, spawnResult,
                       stopCalls>>

\* audio.rs:114-152  a datagram that is no packet of the driver arrives
WRecvStray(w) ==
    LET me == workers[w]
    IN  /\ me.pc = "recv"
        /\ \E d \in StrayDatagrams : Recv(w, d)
        /\ UNCHANGED <<SOCKET, wire, mmresult, soundfonts, realtime_config,
                       audio_handle, status_message, cpc, settings_file, handle,
                       load_progress, is_running, sockets, console, spawnCalls,
                       spawnResult, stopCalls>>

\* ---------------------------------- the same loop, one lock at a time
\* audio.rs:108  load_progress.lock() returns the guard
WReadyLock(w) ==
    /\ workers[w].pc = "ready"
    /\ workers' = [workers EXCEPT ![w] =
          [@ EXCEPT !.held = @ \cup {"load_progress"}, !.pc = "ready_locked"]]
    /\ UNCHANGED <<SOCKET, wire, mmresult, soundfonts, realtime_config, audio_handle, status_message, cpc, settings_file,
                   handle, load_progress, is_running, sockets, console,
                   spawnCalls, spawnResult, stopCalls>>

\* audio.rs:108  *p = 1.0; the guard is dropped at the end of the statement
WReadyWrite(w) ==
    /\ workers[w].pc = "ready_locked"
    /\ WriteProgress(w, ProgressReady,
                     [workers[w] EXCEPT !.held = @ \ {"load_progress"}, !.pc = "loop"])
    /\ UNCHANGED <<SOCKET, wire, mmresult, soundfonts, realtime_config, audio_handle, status_message, cpc, settings_file,
                   handle, is_running, sockets, console, spawnCalls, spawnResult,
                   stopCalls>>

\* audio.rs:115-127  the packet gets as far as synth_arc.lock()
TakesSynthLock(buf, size, total_channels) ==
    /\ size = 4
    /\ buf[2] >= 128
    /\ buf[2] < 240
    /\ ~OutOfRange(TargetChannel(buf[1], buf[2]), total_channels)

\* audio.rs:114-129  recv_from returns for datagram d; a packet to map makes
\* the worker take the lock of the synth
WRecvLock(w) ==
    LET me == workers[w]
    IN  /\ me.pc = "recv"
        /\ \E d \in Datagrams \cup StrayDatagrams : \E size \in RecvSizes(d) :
              LET buf == Received(me.buf, d)
                  locks == TakesSynthLock(buf, size, me.config.total_channels)
              IN  /\ AudioCount(me.sent) < MaxAudio
                  /\ workers' = [workers EXCEPT ![w] =
                        [me EXCEPT !.buf = buf, !.size = size, !.dgram = d,
                                   !.forwarded = <<>>, !.late = LateAfter(w),
                                   !.held = IF locks THEN @ \cup {"synth_arc"} ELSE @,
                                   !.pc = IF locks THEN "locked" ELSE "loop"]]
        /\ UNCHANGED <<SOCKET, wire, mmresult, soundfonts, realtime_config, audio_handle, status_message, cpc, settings_file,
                       handle, load_progress, is_running, sockets, console,
                       spawnCalls, spawnResult, stopCalls>>

HeldAfterLockedBlock_keep(held) == held
\* audio.rs:149  the guard s is dropped where the if-let block ends
HeldAfterLockedBlock(held) == held \ {"synth_arc"}

\* audio.rs:130-149  the match and send_event under the lock, then the unlock
WSendLocked(w) ==
    LET me == workers[w]
        events == ChannelEventOf(me.buf[2], me.buf[3], me.buf[4],
                                 TargetChannel(me.buf[1], me.buf[2]))
    IN  /\ me.pc = "locked"
        /\ workers' = [workers EXCEPT ![w] =
              [me EXCEPT !.forwarded = events, !.sent = @ \o events,
                         !.held = HeldAfterLockedBlock(@), !.pc = "loop"]]
        /\ UNCHANGED <<SOCKET, wire, mmresult, soundfonts, realtime_config, audio_handle, status_message, cpc, settings_file,
                       handle, load_progress, is_running, sockets, console,
                       spawnCalls, spawnResult, stopCalls>>

LockWorkerStep(w) ==
    \/ WSetup(w)
    \/ WLoadBank(w)
    \/ WNoBanks(w)
    \/ WAssign(w)
    \/ WReadyLock(w)
    \/ WReadyWrite(w)
    \/ WLoopCheck(w)
    \/ WRecvTimeout(w)
    \/ WRecvLock(w)
    \/ WSendLocked(w)

WorkerStep(w) ==
    \/ WSetup(w)
    \/ WLoadBank(w)
    \/ WNoBanks(w)
    \/ WAssign(w)
    \/ WReady(w)
    \/ WLoopCheck(w)
    \/ WRecvTimeout(w)
    \/ WRecv(w)

\* ------------------------------------------------------- the environment
\* another process binds or releases a loopback UDP port
EnvBind(p) ==
    /\ sockets[p] = FreePort
    /\ sockets' = [sockets EXCEPT ![p] = OtherProcess]
    /\ UNCHANGED <<SOCKET, wire, mmresult, soundfonts, realtime_config, audio_handle, status_message, cpc,
                   handle, load_progress, workers, is_running, settings_file,
                   console, spawnCalls, spawnResult, stopCalls>>

EnvRelease(p) ==
    /\ sockets[p] = OtherProcess
    /\ sockets' = [sockets EXCEPT ![p] = FreePort]
    /\ UNCHANGED <<SOCKET, wire, mmresult, soundfonts, realtime_config, audio_handle, status_message, cpc,
                   handle, load_progress, workers, is_running, settings_file,
                   console, spawnCalls, spawnResult, stopCalls>>

\* audio.rs:52-62  the progress is written and RealtimeSynth::
\* open_with_default_output panics (no audio output device): the closure
\* unwinds, the socket is dropped, the thread has ended
Panicked == Blank("panicked")
WPanic(w) ==
    /\ workers[w].pc = "setup"
    /\ load_progress' = ProgressSetup
    /\ workers' = [workers EXCEPT ![w] = Panicked]
    /\ sockets' = [sockets EXCEPT ![workers[w].config.udp_port] = FreePort]
    /\ UNCHANGED <<SOCKET, wire, mmresult, soundfonts, realtime_config, audio_handle, status_message, cpc,
                   handle, is_running, settings_file, console, spawnCalls,
                   spawnResult, stopCalls>>

\* ---------------------------------------------- the driver: modMessage
MODM_GETNUMDEVS == 1
MODM_GETDEVCAPS == 2
MODM_OPEN == 3
MODM_CLOSE == 4
MODM_PREPARE == 5
MODM_UNPREPARE == 6
MODM_DATA == 7
MODM_LONGDATA == 8
MMSYSERR_NOERROR == 0
MMSYSERR_NOTSUPPORTED == 11
NumDevs == 16
\* lib.rs:110  the port the driver sends to
EnginePort == 44444

\* (x & 0xFF) as u8, and u_device_id as u8
Byte(x) == x % 256

Packet_swapped(u_device_id, msg) ==
    <<Byte(msg), Byte(u_device_id), Byte(msg \div 256), Byte(msg \div 65536)>>
\* lib.rs:101-107  [u_device_id as u8, status, data1, data2]
Packet(u_device_id, msg) ==
    <<Byte(u_device_id), Byte(msg), Byte(msg \div 256), Byte(msg \div 65536)>>

\* the u32 modMessage returns for message u_msg
Returned(u_msg, code) == [u_msg |-> u_msg, code |-> code]

SentTo(port, payload) == [port |-> port, payload |-> payload]

driver_unchanged ==
    UNCHANGED <<soundfonts, realtime_config, audio_handle, status_message, cpc,
                handle, load_progress, workers, is_running, sockets,
                settings_file, console, spawnCalls, spawnResult, stopCalls>>

\* lib.rs:89-96  MODM_OPEN: bind a send socket when there is none; the bind
\* can fail (.ok() keeps None)
ModOpen ==
    /\ \E bound \in BOOLEAN :
          SOCKET' = IF SOCKET = "None" THEN (IF bound THEN "Some" ELSE "None")
                    ELSE SOCKET
    /\ mmresult' = Returned(MODM_OPEN, MMSYSERR_NOERROR)
    /\ UNCHANGED wire
    /\ driver_unchanged

\* lib.rs:99-113  MODM_DATA: send the packet when there is a socket; the
\* result of send_to is dropped
ModData_unguarded(u_device_id, msg) ==
    /\ \E delivered \in BOOLEAN :
          IF delivered
          THEN /\ Cardinality(wire) < MaxWire
               /\ wire' = wire \cup {SentTo(EnginePort, Packet(u_device_id, msg))}
          ELSE UNCHANGED wire
    /\ mmresult' = Returned(MODM_DATA, MMSYSERR_NOERROR)
    /\ UNCHANGED SOCKET
    /\ driver_unchanged

ModData(u_device_id, msg) ==
    /\ IF SOCKET = "Some"
       THEN \E delivered \in BOOLEAN :
               IF delivered
               THEN /\ Cardinality(wire) < MaxWire
                    /\ wire' = wire \cup {SentTo(EnginePort, Packet(u_device_id, msg))}
               ELSE UNCHANGED wire
       ELSE UNCHANGED wire
    /\ mmresult' = Returned(MODM_DATA, MMSYSERR_NOERROR)
    /\ UNCHANGED SOCKET
    /\ driver_unchanged

ModOther_teardown(u_msg) ==
    /\ u_msg \notin {MODM_OPEN, MODM_DATA}
    /\ mmresult' = Returned(u_msg, MMSYSERR_NOERROR)
    /\ SOCKET' = IF u_msg = MODM_CLOSE THEN "None" ELSE SOCKET
    /\ UNCHANGED wire
    /\ driver_unchanged
\* lib.rs:63 and 66-86 and 115-117  the messages that touch no socket
ModOther(u_msg) ==
    /\ u_msg \notin {MODM_OPEN, MODM_DATA}
    /\ mmresult' = Returned(u_msg,
          IF u_msg = MODM_GETNUMDEVS THEN NumDevs
          ELSE IF u_msg \in {MODM_GETDEVCAPS, MODM_CLOSE, MODM_PREPARE, MODM_UNPREPARE}
              THEN MMSYSERR_NOERROR
          ELSE MMSYSERR_NOTSUPPORTED)
    /\ UNCHANGED <<SOCKET, wire>>
    /\ driver_unchanged

\* ------------------------------------------------ AudioEngineHandle::stop
stop_guard_always(h) == TRUE
\* audio.rs:23  if self.is_running.load(Relaxed)
stop_guard(h) == is_running[h.id]

StoreStop_nostore(h) == is_running
\* audio.rs:25  self.is_running.store(false, Relaxed)
StoreStop(h) == [is_running EXCEPT ![h.id] = FALSE]

\* audio.rs:26  if let Some(handle) = self.thread_handle.take(): stop() has a
\* thread to join
StopBlocks(h) == stop_guard(h) /\ h.thread_handle

JoinReturns_nowait(h) == TRUE
\* audio.rs:27  handle.join() returns when the thread has ended
JoinReturns(h) == workers[h.id].pc \in {"exited", "panicked"}

\* audio.rs:23-30  stop() on a handle without a thread to join runs through:
\* the flag and the console when it returns
FlagAfterStop(h) == IF stop_guard(h) THEN StoreStop(h) ELSE is_running
ConsoleAfterStop(h) == IF stop_guard(h) THEN console + 1 ELSE console

\* audio.rs:26  the handle after thread_handle.take()
Taken(h) == [h EXCEPT !.thread_handle = FALSE]

\* --------------------------------------------------- spawn_audio_thread
\* audio.rs:43-44  UdpSocket::bind succeeds when nobody has the port bound
BindSucceeds(port) == sockets[port] = FreePort

\* the Result of spawn_audio_thread(config, ..)
SpawnReturns(config) == IF BindSucceeds(config.udp_port) THEN "ok" ELSE "err"

\* audio.rs:39-48 and 158-161: bind, spawn the thread, return the handle; the
\* new worker is number spawnCalls + 1
spawn_audio_thread(config, sfs) ==
    /\ spawnCalls' = spawnCalls + 1
    /\ spawnResult' = SpawnReturns(config)
    /\ IF SpawnReturns(config) = "ok"
       THEN /\ sockets' = [sockets EXCEPT ![config.udp_port] = HeldBy(spawnCalls + 1)]
            /\ workers' = [workers EXCEPT ![spawnCalls + 1] = NewWorker(config, sfs)]
            /\ is_running' = [is_running EXCEPT ![spawnCalls + 1] = TRUE]
       ELSE UNCHANGED <<sockets, workers, is_running>>

\* ------------------------------------- the owner of the progress cell
\* spawn_audio_thread only receives the cell (audio.rs:37); the code that owns
\* it is not part of the sources at hand.  Its behaviour is taken from the
\* specification: the cell is set to 0.0 at every start and restart, and to
\* 1.0 when the start fails.
ProgressAtStart_keep(old) == old
ProgressAtStart(old) == ProgressZero
ProgressAfterFailedStart_keep(p) == p
ProgressAfterFailedStart(p) == ProgressOne
ProgressAfterSpawn(result, old) ==
    IF result = "ok"
    THEN ProgressAtStart(old)
    ELSE ProgressAfterFailedStart(ProgressAtStart(old))

\* ------------------------------------------------------------ XXSynthApp
Msg(text, port) == [text |-> text, port |-> port]

\* main.rs:327  the interpolation choice as the settings file stores it
InterpolatorCode_inverted(interpolator) == IF interpolator = "Linear" THEN 0 ELSE 1
InterpolatorCode(interpolator) == IF interpolator = "Linear" THEN 1 ELSE 0

\* main.rs:321-330  the AppSettings fields taken from the configuration
AppSettingsOf(cfg) ==
    [udp_port |-> cfg.udp_port,
     total_channels |-> cfg.total_channels,
     render_window_ms |-> cfg.render_window_ms,
     thread_count |-> cfg.thread_count,
     interpolator |-> InterpolatorCode(cfg.interpolator),
     ignore_velocity_min |-> cfg.ignore_velocity_min,
     ignore_velocity_max |-> cfg.ignore_velocity_max]

\* main.rs:86-92  the configuration built from the loaded AppSettings; the
\* velocity range is copied as it is found
ConfigOf(settings) ==
    [udp_port |-> settings.udp_port,
     total_channels |-> settings.total_channels,
     render_window_ms |-> settings.render_window_ms,
     thread_count |-> settings.thread_count,
     interpolator |-> IF settings.interpolator = 1 THEN "Linear" ELSE "Nearest",
     ignore_velocity_min |-> settings.ignore_velocity_min,
     ignore_velocity_max |-> settings.ignore_velocity_max]

\* main.rs:321-331  the settings written by the restart handler
Settings(sfs, config) ==
    [exists |-> TRUE, soundfonts |-> sfs, config |-> AppSettingsOf(config)]

\* main.rs:55-64  AppSettings::load without a readable file
DefaultSettings ==
    [udp_port |-> 44444, total_channels |-> 64, render_window_ms |-> 15,
     thread_count |-> 12, interpolator |-> 0,
     ignore_velocity_min |-> 0, ignore_velocity_max |-> 0]
DefaultConfig == ConfigOf(DefaultSettings)
NoSettingsFile == [exists |-> FALSE, soundfonts |-> <<>>, config |-> DefaultSettings]

\* the settings file found at launch: none, or one written by an earlier run
InitialSettings ==
    {NoSettingsFile,
     Settings(<<"A.sf2", "B.sf2">>,
              [DefaultConfig EXCEPT !.udp_port = 44445, !.total_channels = 16])}

\* main.rs:301-303  the clamp of the velocity range; it runs in every frame
\* that shows the settings view, before the buttons of the view are handled
Velocities == {0, 100}
ClampVelocity(cfg) ==
    IF cfg.ignore_velocity_min > cfg.ignore_velocity_max
    THEN [cfg EXCEPT !.ignore_velocity_max = cfg.ignore_velocity_min]
    ELSE cfg

HandleAfterSpawn_keep(result, id, old) == SomeHandle(id)
\* main.rs:108-115  the Ok and Err arms of the automatic start
HandleAfterSpawn(result, id, old) == IF result = "ok" THEN SomeHandle(id) ELSE old
AutoStartStatus(result, port) ==
    IF result = "ok" THEN Msg("AutoStarted", port) ELSE Msg("AutoStartFailed", port)

\* main.rs:335-341  the Ok and Err arms of the restart
RestartStatus(result, port) ==
    IF result = "ok" THEN Msg("Applied", port) ELSE Msg("StartFailed", port)

\* main.rs:104-115  XXSynthApp::new starts the engine
AutoStart ==
    /\ cpc = "launch"
    /\ spawn_audio_thread(realtime_config, soundfonts)
    /\ audio_handle' = HandleAfterSpawn(SpawnReturns(realtime_config),
                                        spawnCalls + 1, audio_handle)
    /\ status_message' = AutoStartStatus(SpawnReturns(realtime_config),
                                         realtime_config.udp_port)
    /\ load_progress' = ProgressAfterSpawn(SpawnReturns(realtime_config), load_progress)
    /\ cpc' = "idle"
    /\ UNCHANGED <<SOCKET, wire, mmresult, soundfonts, realtime_config, handle, settings_file, console,
                   stopCalls>>

\* main.rs:312-316 with audio.rs:23-25  the restart button: take the handle and
\* enter stop()
RestartClick ==
    /\ cpc = "idle"
    /\ spawnCalls < MaxCalls
    /\ realtime_config' = ClampVelocity(realtime_config)
    /\ handle' = audio_handle
    /\ audio_handle' = None
    /\ IF audio_handle = None
       THEN /\ cpc' = "restart_spawn"
            /\ UNCHANGED <<is_running, stopCalls, console>>
       ELSE /\ stopCalls' = stopCalls + 1
            /\ is_running' = FlagAfterStop(audio_handle)
            /\ IF StopBlocks(audio_handle)
               THEN /\ cpc' = "restart_join"
                    /\ UNCHANGED console
               ELSE /\ cpc' = "restart_spawn"
                    /\ console' = ConsoleAfterStop(audio_handle)
    /\ UNCHANGED <<SOCKET, wire, mmresult, soundfonts, status_message, load_progress,
                   workers, sockets, settings_file, spawnCalls, spawnResult>>

\* audio.rs:27-30  the join inside stop() returns; stop() returns
RestartJoin ==
    /\ cpc = "restart_join"
    /\ JoinReturns(handle)
    /\ handle' = Taken(handle)
    /\ console' = console + 1
    /\ cpc' = "restart_spawn"
    /\ UNCHANGED <<SOCKET, wire, mmresult, soundfonts, realtime_config, audio_handle, status_message,
                   load_progress, workers, is_running, sockets, settings_file,
                   spawnCalls, spawnResult, stopCalls>>

\* main.rs:318-342  save the settings, start the new engine
RestartSpawn ==
    /\ cpc = "restart_spawn"
    /\ settings_file' = Settings(soundfonts, realtime_config)
    /\ spawn_audio_thread(realtime_config, soundfonts)
    /\ audio_handle' = HandleAfterSpawn(SpawnReturns(realtime_config),
                                        spawnCalls + 1, audio_handle)
    /\ status_message' = RestartStatus(SpawnReturns(realtime_config),
                                       realtime_config.udp_port)
    /\ load_progress' = ProgressAfterSpawn(SpawnReturns(realtime_config), load_progress)
    /\ handle' = None
    /\ cpc' = "idle"
    /\ UNCHANGED <<SOCKET, wire, mmresult, soundfonts, realtime_config, console, stopCalls>>

\* main.rs:346-351 with audio.rs:23-25  the stop button, shown while is_running()
StopClick ==
    /\ cpc = "idle"
    /\ audio_handle # None
    /\ realtime_config' = ClampVelocity(realtime_config)
    /\ handle' = audio_handle
    /\ audio_handle' = None
    /\ stopCalls' = stopCalls + 1
    /\ is_running' = FlagAfterStop(audio_handle)
    /\ IF StopBlocks(audio_handle)
       THEN /\ cpc' = "stop_join"
            /\ UNCHANGED console
       ELSE /\ cpc' = "stop_ret"
            /\ console' = ConsoleAfterStop(audio_handle)
    /\ UNCHANGED <<SOCKET, wire, mmresult, soundfonts, status_message, load_progress,
                   workers, sockets, settings_file, spawnCalls, spawnResult>>

\* audio.rs:27-30  the join inside stop() returns; stop() returns
StopJoin ==
    /\ cpc = "stop_join"
    /\ JoinReturns(handle)
    /\ handle' = Taken(handle)
    /\ console' = console + 1
    /\ cpc' = "stop_ret"
    /\ UNCHANGED <<SOCKET, wire, mmresult, soundfonts, realtime_config, audio_handle, status_message,
                   load_progress, workers, is_running, sockets, settings_file,
                   spawnCalls, spawnResult, stopCalls>>

\* main.rs:352  the status after the manual stop
StopFinish ==
    /\ cpc = "stop_ret"
    /\ status_message' = Msg("ManuallyStopped", 0)
    /\ handle' = None
    /\ cpc' = "idle"
    /\ UNCHANGED <<SOCKET, wire, mmresult, soundfonts, realtime_config, audio_handle, load_progress,
                   workers, is_running, sockets, settings_file, console,
                   spawnCalls, spawnResult, stopCalls>>

\* main.rs:257  the port field of the settings view
EditPort(p) ==
    /\ cpc = "idle"
    /\ realtime_config.udp_port # p
    /\ realtime_config' = ClampVelocity([realtime_config EXCEPT !.udp_port = p])
    /\ UNCHANGED <<SOCKET, wire, mmresult, soundfonts, audio_handle, status_message, cpc, handle,
                   load_progress, workers, is_running, sockets, settings_file,
                   console, spawnCalls, spawnResult, stopCalls>>

\* main.rs:261  the channel count field
EditChannels(c) ==
    /\ cpc = "idle"
    /\ realtime_config.total_channels # c
    /\ realtime_config' = ClampVelocity([realtime_config EXCEPT !.total_channels = c])
    /\ UNCHANGED <<SOCKET, wire, mmresult, soundfonts, audio_handle, status_message, cpc, handle,
                   load_progress, workers, is_running, sockets, settings_file,
                   console, spawnCalls, spawnResult, stopCalls>>

\* main.rs:208-215  add a soundfont file
AddSoundfont(path) ==
    /\ cpc = "idle"
    /\ Len(soundfonts) < MaxBanks
    /\ soundfonts' = Append(soundfonts, path)
    /\ UNCHANGED <<SOCKET, wire, mmresult, realtime_config, audio_handle, status_message, cpc, handle,
                   load_progress, workers, is_running, sockets, settings_file,
                   console, spawnCalls, spawnResult, stopCalls>>

\* main.rs:216-218  clear the list
ClearSoundfonts ==
    /\ cpc = "idle"
    /\ soundfonts # <<>>
    /\ soundfonts' = <<>>
    /\ UNCHANGED <<SOCKET, wire, mmresult, realtime_config, audio_handle, status_message, cpc, handle,
                   load_progress, workers, is_running, sockets, settings_file,
                   console, spawnCalls, spawnResult, stopCalls>>

\* main.rs:238-240  remove entry k
RemoveSoundfont(k) ==
    /\ cpc = "idle"
    /\ k \in 1..Len(soundfonts)
    /\ soundfonts' = [j \in 1..(Len(soundfonts) - 1) |->
                         IF j < k THEN soundfonts[j] ELSE soundfonts[j + 1]]
    /\ UNCHANGED <<SOCKET, wire, mmresult, realtime_config, audio_handle, status_message, cpc, handle,
                   load_progress, workers, is_running, sockets, settings_file,
                   console, spawnCalls, spawnResult, stopCalls>>

\* main.rs:296-298  the two velocity fields
EditVelocityMin(v) ==
    /\ cpc = "idle"
    /\ realtime_config.ignore_velocity_min # v
    /\ realtime_config' =
          ClampVelocity([realtime_config EXCEPT !.ignore_velocity_min = v])
    /\ UNCHANGED <<SOCKET, wire, mmresult, soundfonts, audio_handle, status_message, cpc, handle,
                   load_progress, workers, is_running, sockets, settings_file,
                   console, spawnCalls, spawnResult, stopCalls>>

EditVelocityMax(v) ==
    /\ cpc = "idle"
    /\ realtime_config.ignore_velocity_max # v
    /\ realtime_config' =
          ClampVelocity([realtime_config EXCEPT !.ignore_velocity_max = v])
    /\ realtime_config' # realtime_config
    /\ UNCHANGED <<SOCKET, wire, mmresult, soundfonts, audio_handle, status_message, cpc, handle,
                   load_progress, workers, is_running, sockets, settings_file,
                   console, spawnCalls, spawnResult, stopCalls>>

\* main.rs:286-291  the interpolation combo box
Interpolators == {"Nearest", "Linear"}
EditInterpolator(x) ==
    /\ cpc = "idle"
    /\ realtime_config.interpolator # x
    /\ realtime_config' = ClampVelocity([realtime_config EXCEPT !.interpolator = x])
    /\ UNCHANGED <<SOCKET, wire, mmresult, soundfonts, audio_handle, status_message, cpc, handle,
                   load_progress, workers, is_running, sockets, settings_file,
                   console, spawnCalls, spawnResult, stopCalls>>

\* main.rs:265  the render window slider, 1.0..=100.0
RenderWindows == {15, 30}
EditRenderWindow(ms) ==
    /\ cpc = "idle"
    /\ realtime_config.render_window_ms # ms
    /\ realtime_config' = ClampVelocity([realtime_config EXCEPT !.render_window_ms = ms])
    /\ UNCHANGED <<SOCKET, wire, mmresult, soundfonts, audio_handle, status_message, cpc, handle,
                   load_progress, workers, is_running, sockets, settings_file,
                   console, spawnCalls, spawnResult, stopCalls>>

\* main.rs:271-280  the thread count: single, automatic (0) or a custom number
ThreadCounts == {1, 12}
EditThreadCount(n) ==
    /\ cpc = "idle"
    /\ realtime_config.thread_count # n
    /\ realtime_config' = ClampVelocity([realtime_config EXCEPT !.thread_count = n])
    /\ UNCHANGED <<SOCKET, wire, mmresult, soundfonts, audio_handle, status_message, cpc, handle,
                   load_progress, workers, is_running, sockets, settings_file,
                   console, spawnCalls, spawnResult, stopCalls>>

\* main.rs:83-101  the settings are loaded and the app is built; the engine
\* is not started yet
Init ==
    /\ settings_file \in InitialSettings
    /\ soundfonts = settings_file.soundfonts
    /\ realtime_config = ConfigOf(settings_file.config)
    /\ audio_handle = None
    /\ status_message = Msg("AutoStarting", 0)
    /\ cpc = "launch"
    /\ handle = None
    /\ load_progress = InitialProgress
    /\ workers = [w \in WorkerIds |-> NotSpawned]
    /\ is_running = [w \in WorkerIds |-> FALSE]
    /\ sockets \in [Ports -> {FreePort, OtherProcess}]
    /\ console = 0
    /\ spawnCalls = 0
    /\ spawnResult = "none"
    /\ stopCalls = 0
    /\ DriverNotLoaded

Next ==
    \/ AutoStart
    \/ RestartClick
    \/ RestartJoin
    \/ RestartSpawn
    \/ StopClick
    \/ StopJoin
    \/ StopFinish
    \/ \E p \in Ports : EditPort(p)
    \/ \E p \in Ports : EnvBind(p)
    \/ \E p \in Ports : EnvRelease(p)
    \/ \E w \in WorkerIds : WorkerStep(w)

Spec == Init /\ [][Next]_vars

\* the same program with its threads scheduled fairly
FairRestart == Init /\ [][Next]_vars /\ \A w \in WorkerIds : WF_vars(WorkerStep(w))

\* the same program with the whole settings view in use
NextSettings ==
    \/ Next
    \/ \E c \in ChannelChoices : EditChannels(c)
    \/ \E path \in Banks : AddSoundfont(path)
    \/ ClearSoundfonts
    \/ \E k \in 1..MaxBanks : RemoveSoundfont(k)

SpecSettings == Init /\ [][NextSettings]_vars

\* the program launched with any list of banks in its settings file
InitLoad ==
    /\ settings_file \in {Settings(sfs, DefaultConfig) : sfs \in BankLists}
    /\ soundfonts = settings_file.soundfonts
    /\ realtime_config = ConfigOf(settings_file.config)
    /\ audio_handle = None
    /\ status_message = Msg("AutoStarting", 0)
    /\ cpc = "launch"
    /\ handle = None
    /\ load_progress = InitialProgress
    /\ workers = [w \in WorkerIds |-> NotSpawned]
    /\ is_running = [w \in WorkerIds |-> FALSE]
    /\ sockets \in [Ports -> {FreePort, OtherProcess}]
    /\ console = 0
    /\ spawnCalls = 0
    /\ spawnResult = "none"
    /\ stopCalls = 0
    /\ DriverNotLoaded

SpecLoad == InitLoad /\ [][Next]_vars

\* one launch of it: the automatic start, the stop button, the worker
NextLoad ==
    \/ AutoStart
    \/ StopClick
    \/ StopJoin
    \/ StopFinish
    \/ \E p \in Ports : EnvBind(p)
    \/ \E p \in Ports : EnvRelease(p)
    \/ \E w \in WorkerIds : WorkerStep(w)

\* threads are scheduled fairly: a worker that can take a step takes one
FairLoad ==
    InitLoad /\ [][NextLoad]_vars /\ \A w \in WorkerIds : WF_vars(WorkerStep(w))

\* the controlling thread goes on as soon as the join can return
FairStop ==
    /\ InitLoad
    /\ [][NextLoad]_vars
    /\ \A w \in WorkerIds : WF_vars(WorkerStep(w))
    /\ WF_vars(StopJoin)

\* one launch with the worker's locks followed one at a time
NextLocks ==
    \/ AutoStart
    \/ StopClick
    \/ StopJoin
    \/ StopFinish
    \/ \E w \in WorkerIds : LockWorkerStep(w)

SpecLocks == InitLoad /\ [][NextLocks]_vars

\* the same program on a machine where opening the audio output may panic
NextCrash ==
    \/ Next
    \/ \E w \in WorkerIds : WPanic(w)

SpecCrash == Init /\ [][NextCrash]_vars

\* ----------------------------------------------- the settings view in use
\* the settings file found at launch may have been written by hand or by
\* another version: serde accepts every u8 pair as the velocity range
EditedSettings ==
    {NoSettingsFile,
     [exists |-> TRUE, soundfonts |-> <<"A.sf2">>,
      config |-> [DefaultSettings EXCEPT !.total_channels = 16,
                                         !.ignore_velocity_min = 100,
                                         !.ignore_velocity_max = 0]]}

InitEdit ==
    /\ settings_file \in EditedSettings
    /\ soundfonts = settings_file.soundfonts
    /\ realtime_config = ConfigOf(settings_file.config)
    /\ audio_handle = None
    /\ status_message = Msg("AutoStarting", 0)
    /\ cpc = "launch"
    /\ handle = None
    /\ load_progress = InitialProgress
    /\ workers = [w \in WorkerIds |-> NotSpawned]
    /\ is_running = [w \in WorkerIds |-> FALSE]
    /\ sockets = [p \in Ports |-> IF p = 44445 THEN OtherProcess ELSE FreePort]
    /\ console = 0
    /\ spawnCalls = 0
    /\ spawnResult = "none"
    /\ stopCalls = 0
    /\ DriverNotLoaded

\* the worker while no datagram arrives
QuietWorkerStep(w) ==
    \/ WSetup(w)
    \/ WLoadBank(w)
    \/ WNoBanks(w)
    \/ WAssign(w)
    \/ WReady(w)
    \/ WLoopCheck(w)
    \/ WRecvTimeout(w)

\* the restart button, the connection fields, the velocity range and the list
\* of banks
NextEdit ==
    \/ AutoStart
    \/ RestartClick
    \/ RestartJoin
    \/ RestartSpawn
    \/ \E p \in Ports : EditPort(p)
    \/ \E c \in ChannelChoices : EditChannels(c)
    \/ \E v \in Velocities : EditVelocityMin(v)
    \/ \E v \in Velocities : EditVelocityMax(v)
    \/ AddSoundfont("B.sf2")
    \/ ClearSoundfonts
    \/ \E w \in WorkerIds : QuietWorkerStep(w)

SpecEdit == InitEdit /\ [][NextEdit]_vars

\* the restart button, the synthesis fields and the list of banks
NextSave ==
    \/ AutoStart
    \/ RestartClick
    \/ RestartJoin
    \/ RestartSpawn
    \/ \E x \in Interpolators : EditInterpolator(x)
    \/ \E ms \in RenderWindows : EditRenderWindow(ms)
    \/ \E n \in ThreadCounts : EditThreadCount(n)
    \/ AddSoundfont("B.sf2")
    \/ \E k \in 1..MaxBanks : RemoveSoundfont(k)
    \/ \E w \in WorkerIds : QuietWorkerStep(w)

SpecSave == InitEdit /\ [][NextSave]_vars

\* ------------------------------------- the driver and the listener
\* the engine launched on the driver's port: no bank and 64 channels, or one
\* bank and 16 channels
InitWire ==
    /\ settings_file \in
          { Settings(<<>>, DefaultConfig),
            Settings(<<"A.sf2">>, [DefaultConfig EXCEPT !.total_channels = 16]) }
    /\ soundfonts = settings_file.soundfonts
    /\ realtime_config = ConfigOf(settings_file.config)
    /\ audio_handle = None
    /\ status_message = Msg("AutoStarting", 0)
    /\ cpc = "launch"
    /\ handle = None
    /\ load_progress = InitialProgress
    /\ workers = [w \in WorkerIds |-> NotSpawned]
    /\ is_running = [w \in WorkerIds |-> FALSE]
    /\ sockets = [p \in Ports |-> FreePort]
    /\ console = 0
    /\ spawnCalls = 0
    /\ spawnResult = "none"
    /\ stopCalls = 0
    /\ DriverNotLoaded

WireWorkerStep(w) ==
    \/ WSetup(w)
    \/ WLoadBank(w)
    \/ WNoBanks(w)
    \/ WAssign(w)
    \/ WReady(w)
    \/ WLoopCheck(w)
    \/ WRecvTimeout(w)
    \/ WRecvWire(w)
    \/ WRecvStray(w)

NextWire ==
    \/ AutoStart
    \/ ModOpen
    \/ \E id \in DeviceIds : \E msg \in ShortMessages : ModData(id, msg)
    \/ \E w \in WorkerIds : WireWorkerStep(w)

SpecWire == InitWire /\ [][NextWire]_vars

\* the driver and an engine on either port, with either velocity range
BridgeSettings ==
    { [exists |-> TRUE,
       soundfonts |-> IF p = EnginePort THEN <<"A.sf2">> ELSE <<>>,
       config |-> [DefaultSettings EXCEPT !.udp_port = p, !.total_channels = 16,
                                          !.ignore_velocity_max = v]] :
      p \in Ports, v \in Velocities }

InitBridge ==
    /\ settings_file \in BridgeSettings
    /\ soundfonts = settings_file.soundfonts
    /\ realtime_config = ConfigOf(settings_file.config)
    /\ audio_handle = None
    /\ status_message = Msg("AutoStarting", 0)
    /\ cpc = "launch"
    /\ handle = None
    /\ load_progress = InitialProgress
    /\ workers = [w \in WorkerIds |-> NotSpawned]
    /\ is_running = [w \in WorkerIds |-> FALSE]
    /\ sockets = [p \in Ports |-> FreePort]
    /\ console = 0
    /\ spawnCalls = 0
    /\ spawnResult = "none"
    /\ stopCalls = 0
    /\ DriverNotLoaded

\* what the host sends through the driver: ports 1 and 2, three notes
BridgeDevices == {0, 1}
BridgeMessages ==
    { MidiMsg(144, 60, 100, 0), MidiMsg(144, 60, 0, 0), MidiMsg(128, 60, 100, 0) }
\* the values of u_msg: the eight the driver names and one it does not
DriverMessages == MODM_GETNUMDEVS..(MODM_LONGDATA + 1)

NextBridge ==
    \/ AutoStart
    \/ ModOpen
    \/ \E id \in BridgeDevices : \E msg \in BridgeMessages : ModData(id, msg)
    \/ \E u_msg \in DriverMessages : ModOther(u_msg)
    \/ \E w \in WorkerIds : WireWorkerStep(w)

SpecBridge == InitBridge /\ [][NextBridge]_vars

\* ------------------------------------------- a client of the handle API
\* spawn_audio_thread called by a client that keeps the handle it got
ApiSpawn ==
    /\ cpc = "api"
    /\ spawnCalls < MaxCalls
    /\ IF audio_handle = None THEN TRUE ELSE ~is_running[audio_handle.id]
    /\ spawn_audio_thread(realtime_config, soundfonts)
    /\ audio_handle' = HandleAfterSpawn(SpawnReturns(realtime_config),
                                        spawnCalls + 1, audio_handle)
    /\ load_progress' = ProgressAfterSpawn(SpawnReturns(realtime_config), load_progress)
    /\ UNCHANGED <<SOCKET, wire, mmresult, soundfonts, realtime_config, status_message, cpc, handle,
                   settings_file, console, stopCalls>>

\* audio.rs:22-31  stop() called on the handle the client keeps, running or
\* already stopped
ApiStop ==
    /\ cpc = "api"
    /\ audio_handle # None
    /\ stopCalls < MaxStopCalls
    /\ stopCalls' = stopCalls + 1
    /\ is_running' = FlagAfterStop(audio_handle)
    /\ IF StopBlocks(audio_handle)
       THEN /\ cpc' = "api_join"
            /\ UNCHANGED console
       ELSE /\ cpc' = "api"
            /\ console' = ConsoleAfterStop(audio_handle)
    /\ UNCHANGED <<SOCKET, wire, mmresult, soundfonts, realtime_config, audio_handle, status_message,
                   handle, load_progress, workers, sockets, settings_file,
                   spawnCalls, spawnResult>>

\* audio.rs:27-30  the join returns; stop() returns
ApiJoin ==
    /\ cpc = "api_join"
    /\ JoinReturns(audio_handle)
    /\ audio_handle' = Taken(audio_handle)
    /\ console' = console + 1
    /\ cpc' = "api"
    /\ UNCHANGED <<SOCKET, wire, mmresult, soundfonts, realtime_config, status_message, handle,
                   load_progress, workers, is_running, sockets, settings_file,
                   spawnCalls, spawnResult, stopCalls>>

InitHandle ==
    /\ settings_file \in InitialSettings
    /\ soundfonts = settings_file.soundfonts
    /\ realtime_config = ConfigOf(settings_file.config)
    /\ audio_handle = None
    /\ status_message = Msg("AutoStarting", 0)
    /\ cpc = "api"
    /\ handle = None
    /\ load_progress = InitialProgress
    /\ workers = [w \in WorkerIds |-> NotSpawned]
    /\ is_running = [w \in WorkerIds |-> FALSE]
    /\ sockets \in [Ports -> {FreePort, OtherProcess}]
    /\ console = 0
    /\ spawnCalls = 0
    /\ spawnResult = "none"
    /\ stopCalls = 0
    /\ DriverNotLoaded

NextHandle ==
    \/ ApiSpawn
    \/ ApiStop
    \/ ApiJoin
    \/ \E p \in Ports : EnvBind(p)
    \/ \E p \in Ports : EnvRelease(p)
    \/ \E w \in WorkerIds : WorkerStep(w)

SpecHandle == InitHandle /\ [][NextHandle]_vars

\* ============================================================ properties
LiveWorkers == {w \in WorkerIds : Alive(w)}
WorkerPorts == {p \in Ports : sockets[p][1] = "worker"}

\* the engine's lifecycle state, read off the worker thread: Stopped when no
\* worker thread exists, Loading until the worker has set progress to 1.0,
\* Running from then until the thread ends
Lifecycle ==
    IF LiveWorkers = {} THEN "Stopped"
    ELSE IF \E w \in LiveWorkers : workers[w].pc \in LoadingPcs THEN "Loading"
    ELSE "Running"

\* this step is a call of spawn_audio_thread whose bind fails
FailedStart == spawnCalls' = spawnCalls + 1 /\ ~BindSucceeds(realtime_config.udp_port)

\* C1: at most one engine worker is alive and holds a listen socket at any
\* time; every socket a worker holds belongs to the live worker; when stop()
\* has returned (the restart is about to save and bind, the stop button is
\* about to set its status) and whenever the controller holds no handle, no
\* worker is alive and no worker socket is bound.
AtMostOneEngine ==
    /\ Cardinality(LiveWorkers) <= 1
    /\ Cardinality(WorkerPorts) <= 1
    /\ \A p \in WorkerPorts : Alive(sockets[p][2])
    /\ \A w \in LiveWorkers : sockets[workers[w].config.udp_port] = HeldBy(w)
    /\ cpc \in {"restart_spawn", "stop_ret"} => LiveWorkers = {} /\ WorkerPorts = {}
    /\ (cpc = "idle" /\ audio_handle = None) => LiveWorkers = {} /\ WorkerPorts = {}

\* a restart has replaced the first worker by a second one
SecondEngineRuns ==
    /\ spawnCalls >= 2
    /\ workers[1].pc = "exited"
    /\ workers[2].pc \in LoopPcs
    /\ cpc = "idle"

\* C2: stop() called on a handle that is already stopped returns in that call
\* (it does not wait in join) and changes nothing: not the flag, the handle,
\* the workers, the sockets, the progress, nor what is printed.
StopIdempotent ==
    [][ ( /\ stopCalls' = stopCalls + 1
          /\ audio_handle # None
          /\ ~is_running[IF audio_handle = None THEN 1 ELSE audio_handle.id] )
        => ( /\ cpc' = cpc
             /\ UNCHANGED <<soundfonts, realtime_config, audio_handle,
                            status_message, handle, load_progress, workers,
                            is_running, sockets, settings_file, console,
                            spawnCalls, spawnResult>> ) ]_vars

\* stop() has been called again on the one handle ever made, after it stopped
StoppedTwice ==
    /\ spawnCalls = 1
    /\ spawnResult = "ok"
    /\ stopCalls = MaxStopCalls
    /\ cpc = "api"
    /\ console = 1
    /\ ~audio_handle.thread_handle

\* C3: a start whose bind fails returns an error, spawns no thread, leaves the
\* controller without a handle and with no worker alive, and puts a failure
\* message in the status: the automatic start's at launch, the restart's on
\* a restart.
BindFailureReported ==
    [][ FailedStart
        => ( /\ spawnResult' = "err"
             /\ workers' = workers
             /\ is_running' = is_running
             /\ sockets' = sockets
             /\ audio_handle' = None
             /\ LiveWorkers = {}
             /\ status_message'.text =
                    (IF cpc = "launch" THEN "AutoStartFailed" ELSE "StartFailed") ) ]_vars

\* a restart failed to bind after the automatic start had succeeded
RestartFailedToBind ==
    /\ spawnResult = "err"
    /\ spawnCalls = 2
    /\ workers[1].pc = "exited"
    /\ workers[2].pc = "none"
    /\ audio_handle = None
    /\ status_message.text = "StartFailed"

ProgressMonotone ==
    \A w \in WorkerIds :
        LET written == workers[w].written
        IN  /\ \A k \in 1..Len(written) :
                  PLeq(ProgressZero, written[k]) /\ PLeq(written[k], ProgressOne)
            /\ \A k \in 1..(Len(written) - 1) : PLeq(written[k], written[k + 1])

\* a worker has written all its progress values for two banks, the first of
\* which failed to load
WroteAllProgress ==
    \E w \in WorkerIds :
        /\ workers[w].outcome = <<FALSE, TRUE>>
        /\ Len(workers[w].written) = 4
        /\ workers[w].pc = "loop"

\* C7: a worker that is at its receive loop, or has forwarded an audio event,
\* has written 1.0 as its last progress value and the shared progress is 1.0.
ReadyBeforeReceive ==
    \A w \in WorkerIds :
        (workers[w].pc \in LoopPcs \/ AudioCount(workers[w].sent) > 0)
        => ( /\ workers[w].pc \in LoopPcs
             /\ PEq(load_progress, ProgressOne)
             /\ workers[w].written # <<>>
             /\ PEq(workers[w].written[Len(workers[w].written)], ProgressOne) )

\* the second worker has forwarded an audio event
ForwardedAfterRestart ==
    /\ workers[1].pc = "exited"
    /\ workers[2].pc = "loop"
    /\ AudioCount(workers[2].sent) = 1

EngineLoading == Lifecycle = "Loading"
EngineReady == Lifecycle = "Running" /\ load_progress.num = load_progress.den

\* C9: once the port is bound and the worker is loading, the engine reaches
\* Running (the worker at its receive loop) with the progress at 1.0,
\* whatever banks fail to load.
LoadAlwaysCompletes == EngineLoading ~> EngineReady

\* a worker is at its receive loop although both its banks failed to load
RunningWithoutBanks ==
    \E w \in WorkerIds :
        /\ workers[w].outcome = <<FALSE, FALSE>>
        /\ workers[w].pc = "loop"
        /\ workers[w].sent = <<>>
        /\ PEq(load_progress, ProgressOne)

\* the banks of sfs whose load succeeded, in the order of sfs
RECURSIVE LoadedOf(_, _)
LoadedOf(sfs, outcome) ==
    IF sfs = <<>> \/ outcome = <<>> THEN <<>>
    ELSE (IF Head(outcome) THEN <<Head(sfs)>> ELSE <<>>)
             \o LoadedOf(Tail(sfs), Tail(outcome))

\* C10: every configuration event carries exactly the configured banks whose
\* load succeeded, in the configured order, and is sent only after every
\* configured bank has been tried.
ConfigCarriesLoadedBanks ==
    \A w \in WorkerIds :
        \A k \in 1..Len(workers[w].sent) :
            workers[w].sent[k].kind = "SetSoundfonts"
            => ( /\ Len(workers[w].outcome) = Len(workers[w].soundfonts)
                 /\ workers[w].sent[k].sfs
                        = LoadedOf(workers[w].soundfonts, workers[w].outcome) )

\* both banks of the list B, A loaded and went out in that order
BothBanksAssigned ==
    \E w \in WorkerIds :
        /\ workers[w].soundfonts = <<"B.sf2", "A.sf2">>
        /\ workers[w].outcome = <<TRUE, TRUE>>
        /\ workers[w].sent # <<>>
        /\ workers[w].sent[1].sfs = <<"B.sf2", "A.sf2">>

\* C11: a worker has sent nothing before the assignment; after it, when a bank
\* loaded, its first total_channels events are the configuration events for
\* channels 0..total_channels-1 in turn, each once and each with the same
\* list, and everything after them is audio; when no bank loaded it has sent
\* no configuration event at all.
AssignedBeforeAudio ==
    \A w \in WorkerIds :
        LET me == workers[w]
            n == me.config.total_channels
        IN  /\ me.pc \in {"setup", "banks", "assign"} => me.sent = <<>>
            /\ me.pc \in {"ready"} \cup LoopPcs =>
                  IF me.loaded_sfs # <<>>
                  THEN /\ Len(me.sent) >= n
                       /\ \A k \in 1..n : me.sent[k] = ConfigEvent(k - 1, me.loaded_sfs)
                       /\ \A k \in (n + 1)..Len(me.sent) : IsAudio(me.sent[k])
                  ELSE \A k \in 1..Len(me.sent) : IsAudio(me.sent[k])

\* a worker with a loaded bank has forwarded a note after its configuration
\* events
NoteAfterAssignment ==
    \E w \in WorkerIds :
        /\ workers[w].loaded_sfs # <<>>
        /\ workers[w].pc = "loop"
        /\ Len(workers[w].sent) = workers[w].config.total_channels + 1
        /\ IsAudio(workers[w].sent[Len(workers[w].sent)])

\* ------------------------------------------------- the packet of the last
\* receive: its four bytes and the channel port_index*16 + (status & 0x0F)
Accepted(w) == workers[w].size = 4
PortIndexOf(w) == workers[w].buf[1]
StatusOf(w) == workers[w].buf[2]
Data1Of(w) == workers[w].buf[3]
Data2Of(w) == workers[w].buf[4]
MappedChannel(w) == PortIndexOf(w) * 16 + (StatusOf(w) % 16)
InConfiguredRange(w) == MappedChannel(w) < workers[w].config.total_channels

\* C12: every audio event forwarded for a received packet is addressed to
\* channel port_index*16 + (status_byte & 0x0F), and the packet's status has
\* high nibble 0x8 or 0x9.
ForwardedToMappedChannel ==
    \A w \in WorkerIds :
        \A k \in 1..Len(workers[w].forwarded) :
            /\ Accepted(w)
            /\ StatusOf(w) \in 128..159
            /\ workers[w].forwarded[k].channel = MappedChannel(w)

\* the packet of device 3 for channel 15 went to channel 63 of 64
ForwardedToChannel63 ==
    \E w \in WorkerIds :
        /\ workers[w].dgram = <<3, 159, 127, 255>>
        /\ workers[w].forwarded # <<>>
        /\ workers[w].forwarded[1].channel = 63

\* C13: no event a worker has sent has a channel index >= total_channels, and
\* a packet whose target channel is >= total_channels yields no event.
NeverBeyondTotalChannels ==
    \A w \in WorkerIds :
        /\ \A k \in 1..Len(workers[w].sent) :
              workers[w].sent[k].channel < workers[w].config.total_channels
        /\ (Accepted(w) /\ ~InConfiguredRange(w)) => workers[w].forwarded = <<>>

\* with 64 channels the note-on of device 4, channel 0 (target 64) was
\* received and dropped
DroppedTarget64 ==
    \E w \in WorkerIds :
        /\ workers[w].config.total_channels = 64
        /\ workers[w].dgram = <<4, 144, 60, 100>>
        /\ Accepted(w)
        /\ workers[w].forwarded = <<>>

\* C14: a packet in range with status high nibble 0x8, or with high nibble
\* 0x9 and data2 = 0, yields NoteOff{key: data1} on its target channel.
NoteOffEitherWay ==
    \A w \in WorkerIds :
        ( /\ Accepted(w)
          /\ InConfiguredRange(w)
          /\ \/ StatusOf(w) \in 128..143
             \/ StatusOf(w) \in 144..159 /\ Data2Of(w) = 0 )
        => workers[w].forwarded = <<NoteOff(MappedChannel(w), Data1Of(w))>>

\* a note-on packet with velocity 0 was forwarded as a NoteOff
ZeroVelocityWasNoteOff ==
    \E w \in WorkerIds :
        /\ workers[w].dgram = <<0, 144, 60, 0>>
        /\ workers[w].forwarded = <<NoteOff(0, 60)>>

\* C15: a packet in range with status high nibble 0x9 and data2 > 0 yields
\* exactly the one event NoteOn{key: data1, vel: data2}.
NoteOnWithVelocity ==
    \A w \in WorkerIds :
        ( /\ Accepted(w)
          /\ InConfiguredRange(w)
          /\ StatusOf(w) \in 144..159
          /\ Data2Of(w) > 0 )
        => workers[w].forwarded = <<NoteOn(MappedChannel(w), Data1Of(w), Data2Of(w))>>

\* a note-on with key 127 and data2 255 on channel 15 was forwarded by an
\* engine with 16 channels
LoudestNoteOn ==
    \E w \in WorkerIds :
        /\ workers[w].config.total_channels = 16
        /\ workers[w].dgram = <<0, 159, 127, 255>>
        /\ workers[w].forwarded = <<NoteOn(15, 127, 255)>>

\* C16: a packet whose status is below 0x80 or at least 0xA0 yields no event;
\* only status high nibbles 0x8 and 0x9 produce one.
OnlyNoteStatusesForward ==
    \A w \in WorkerIds :
        /\ (Accepted(w) /\ (StatusOf(w) < 128 \/ StatusOf(w) >= 160))
              => workers[w].forwarded = <<>>
        /\ workers[w].forwarded # <<>> => StatusOf(w) \in 128..159

\* a control change in range of the configured channels was received and
\* dropped
ControlChangeDropped ==
    \E w \in WorkerIds :
        /\ workers[w].dgram = <<0, 176, 60, 100>>
        /\ Accepted(w)
        /\ workers[w].forwarded = <<>>

\* C17: a datagram whose length is not 4 is discarded: it yields no event.
OnlyFourByteDatagrams ==
    \A w \in WorkerIds :
        Len(workers[w].dgram) # 4 => workers[w].forwarded = <<>>

\* C18: the quadruple the listener decodes from a packet of the driver is
\* (device id, bits 0-7, bits 8-15, bits 16-23 of the message); a receive whose
\* size is not 4 decodes nothing and forwards nothing.
PacketRoundTrip ==
    \A w \in WorkerIds :
        /\ \A id \in DeviceIds : \A msg \in ShortMessages :
              (Accepted(w) /\ workers[w].dgram = Packet(id, msg))
              => Decode(workers[w].buf, workers[w].size)
                     = <<id, msg % 256, (msg \div 256) % 256, (msg \div 65536) % 256>>
        /\ ~Accepted(w) => ( /\ Decode(workers[w].buf, workers[w].size) = <<>>
                             /\ workers[w].forwarded = <<>> )

\* the message with bits 24-31 set, sent through device 255, was received
ReceivedFromDevice255 ==
    \E w \in WorkerIds :
        /\ Accepted(w)
        /\ workers[w].dgram = Packet(255, MidiMsg(159, 127, 255, 1))
        /\ workers[w].buf = <<255, 159, 127, 255>>

\* C19 as stated: with no banks and 64 channels the packet [0, 0x90, 60, 100]
\* yields NoteOn{key: 60, vel: 100} addressed to channel 60.
ScenarioChannel60 ==
    \A w \in WorkerIds :
        ( /\ workers[w].soundfonts = <<>>
          /\ workers[w].config.total_channels = 64
          /\ Accepted(w)
          /\ workers[w].dgram = <<0, 144, 60, 100>> )
        => workers[w].forwarded = <<NoteOn(60, 60, 100)>>

\* C19: with no banks and 64 channels the packet [0, 0x90, 60, 100] yields
\* NoteOn{key: 60, vel: 100} addressed to channel 0; 60 is the key.
ScenarioChannel0 ==
    \A w \in WorkerIds :
        ( /\ workers[w].soundfonts = <<>>
          /\ workers[w].config.total_channels = 64
          /\ Accepted(w)
          /\ workers[w].dgram = <<0, 144, 60, 100>> )
        => ( /\ workers[w].forwarded = <<NoteOn(0, 60, 100)>>
             /\ workers[w].sent # <<>>
             /\ workers[w].sent[Len(workers[w].sent)] = NoteOn(0, 60, 100)
             /\ \A k \in 1..Len(workers[w].sent) : IsAudio(workers[w].sent[k]) )

\* the engine without banks received the packet the driver sent for device 0
ScenarioPacketReceived ==
    \E w \in WorkerIds :
        /\ workers[w].soundfonts = <<>>
        /\ workers[w].config.total_channels = 64
        /\ Accepted(w)
        /\ workers[w].dgram = Packet(0, MidiMsg(144, 60, 100, 0))
        /\ workers[w].sent # <<>>

StopWaiting == cpc = "stop_join"
StopReturned == cpc = "stop_ret"
AtMostOneLateReceive == \A w \in WorkerIds : workers[w].late <= 1

\* C20: a stop() that waits for the worker, whether the worker is loading or
\* in its receive loop, eventually returns, and no worker completes more than
\* one receive attempt after its cancellation flag was cleared.
StopAlwaysReturns ==
    /\ StopWaiting ~> StopReturned
    /\ []AtMostOneLateReceive

\* stop() has returned for a worker that completed one receive attempt after
\* the flag was cleared
StoppedAfterLateReceive ==
    /\ cpc = "stop_ret"
    /\ workers[1].pc = "exited"
    /\ workers[1].late = 1

\* ------------------------------------------------------------------ C21
\* C21: a running engine is never reconfigured in place.  The listen port,
\* the channel count, the velocity range and the list of banks of a worker
\* stay what they were when it was started, whatever is edited in the
\* settings view; a worker is created with the values the controller holds at
\* that moment, and only when every earlier worker has ended.
NoLiveReconfiguration ==
    [][\A w \in WorkerIds :
          /\ (Alive(w) /\ workers'[w].pc \in LoadingPcs \cup LoopPcs)
                => /\ workers'[w].config = workers[w].config
                   /\ workers'[w].soundfonts = workers[w].soundfonts
          /\ (workers[w].pc = "none" /\ workers'[w].pc # "none")
                => /\ workers'[w].config = realtime_config
                   /\ workers'[w].soundfonts = soundfonts
                   /\ \A o \in WorkerIds \ {w} : ~Alive(o)]_vars

\* a second engine runs with the values of its start while the port, the
\* channel count, the velocity range and the list of banks have all been
\* edited since
EditedWhileRunning ==
    \E w \in WorkerIds :
        /\ w > 1
        /\ workers[w].pc = "recv"
        /\ audio_handle = SomeHandle(w)
        /\ workers[w].config.udp_port # realtime_config.udp_port
        /\ workers[w].config.total_channels # realtime_config.total_channels
        /\ workers[w].config.ignore_velocity_max # realtime_config.ignore_velocity_max
        /\ workers[w].soundfonts # soundfonts

\* ------------------------------------------------------------------ C22
\* main.rs:159-161 and 346  what the controller shows: is_running() is
\* audio_handle.is_some()
ControllerShows == IF audio_handle # None THEN "Running" ELSE "Stopped"

\* the worker the controller holds the handle of has panicked
HeldWorkerPanicked ==
    /\ cpc = "idle"
    /\ audio_handle # None
    /\ workers[audio_handle.id].pc = "panicked"

\* C22: when the worker thread has panicked, the controller is in a state
\* "engine crashed" that is neither Running nor Stopped.
CrashSurfaced == HeldWorkerPanicked => ControllerShows \notin {"Running", "Stopped"}

\* ------------------------------------------------------------------ C23
\* C23: the worker never is in a receive attempt while it holds the lock of
\* the progress cell or the lock of the synth.
NoLockAcrossReceive ==
    \A w \in WorkerIds : workers[w].pc = "recv" => workers[w].held = {}

\* the worker is in a receive attempt again after it took both locks in turn
\* and sent a note under the lock of the synth
ReceivingAfterLockedSend ==
    \E w \in WorkerIds :
        /\ workers[w].pc = "recv"
        /\ workers[w].forwarded # <<>>
        /\ workers[w].written[Len(workers[w].written)] = ProgressReady
        /\ is_running[w]

\* ------------------------------------------------------------------ C24
\* C24: every packet the driver emits for a short message is sent to the
\* port the engine is configured to listen on.
EmittedToConfiguredPort == \A m \in wire : m.port = realtime_config.udp_port

\* ------------------------------------------------------------------ C25
\* C25: every configuration an engine is started with has
\* ignore_velocity_min <= ignore_velocity_max, whether it was edited in the
\* settings view or loaded from the settings file for the automatic start.
StartedRangeOrdered ==
    \A w \in WorkerIds :
        Alive(w) =>
            workers[w].config.ignore_velocity_min <= workers[w].config.ignore_velocity_max

\* ------------------------------------------------------------------ C26
\* the configuration of an engine that differs from this one only in having
\* the default velocity range
WithoutVelocityRange(config) ==
    [config EXCEPT !.ignore_velocity_min = 0, !.ignore_velocity_max = 0]

\* C26: what the listener forwards for a packet does not depend on the
\* velocity range of its configuration.  It is what an engine with the
\* default range forwards for the same packet; a NoteOn, a NoteOff and a
\* NoteOn with velocity 0 for a channel in range are each forwarded, also
\* when the velocity lies inside the range.
ForwardingIgnoresVelocityRange ==
    \A w \in WorkerIds :
        Accepted(w) =>
            /\ workers[w].forwarded =
                  PacketEvents(Decode(workers[w].buf, workers[w].size),
                               WithoutVelocityRange(workers[w].config).total_channels)
            /\ (HighNibble(StatusOf(w)) \in {128, 144} /\ InConfiguredRange(w))
                  => Len(workers[w].forwarded) = 1

\* an engine whose range is 0..=100 has forwarded a NoteOn of velocity 100
NoteOnInsideIgnoreRange ==
    \E w \in WorkerIds :
        /\ Accepted(w)
        /\ workers[w].config.ignore_velocity_min = 0
        /\ workers[w].config.ignore_velocity_max = 100
        /\ workers[w].forwarded = <<NoteOn(0, 60, 100)>>

\* ------------------------------------------------------------------ C27
\* C27: the progress a worker writes is 0.05 after the setup, 0.05 + 0.90*k/n
\* after the k-th of n banks whether it loaded or not, 0.95 when all banks
\* are processed or there is none, and 1.0 only after the assignment of the
\* instruments to the channels; the cell holds the last value written.
ProgressAllocation ==
    \A w \in WorkerIds :
        LET me == workers[w]
            n == Len(me.soundfonts)
            written == me.written
        IN  Alive(w) =>
              /\ me.pc = "setup" <=> written = <<>>
              /\ written # <<>> =>
                    /\ PEq(written[1], Frac(5, 100))
                    /\ load_progress = written[Len(written)]
              /\ \A k \in 1..n :
                    Len(written) >= 1 + k =>
                        /\ PEq(written[1 + k], Frac(5 * n + 90 * k, 100 * n))
                        /\ Len(me.outcome) >= k
              /\ (me.pc = "banks" /\ n > 0) => Len(written) = 1 + me.i
              /\ me.pc \in {"assign", "ready"} =>
                    /\ Len(written) = IF n = 0 THEN 2 ELSE 1 + n
                    /\ PEq(written[Len(written)], Frac(95, 100))
              /\ \A k \in 1..Len(written) :
                    PEq(written[k], Frac(1, 1)) =>
                        /\ k = Len(written)
                        /\ k = IF n = 0 THEN 3 ELSE 2 + n
                        /\ me.pc \in LoopPcs
                        /\ me.loaded_sfs # <<>> =>
                              Len(me.sent) >= me.config.total_channels

\* a worker with two banks, the first of which failed to load, has written
\* 0.05, 0.50, 0.95 and 1.0
WroteAllocatedShares ==
    \E w \in WorkerIds :
        /\ workers[w].outcome = <<FALSE, TRUE>>
        /\ workers[w].pc = "recv"
        /\ Len(workers[w].written) = 4
        /\ PEq(workers[w].written[2], Frac(1, 2))
        /\ load_progress = ProgressOne

\* ------------------------------------------------------------------ C28
\* calls of spawn_audio_thread so far that returned Err
FailedAttempts == Cardinality({w \in 1..spawnCalls : workers[w].pc = "none"})

\* the controller is back in its frame loop after a start that failed
IdleAfterFailure == cpc = "idle" /\ spawnResult = "err"

\* an engine started after at least one failed start is loading
LoadingAfterFailure == EngineLoading /\ FailedAttempts >= 1

\* C28: after a start or restart that failed to bind the controller is not
\* stuck.  It holds no handle and no worker holds a port; the restart button
\* can be used again; a restart whose port can be bound then returns a
\* handle, and that engine reaches Running, after any number of failures.
NotStuckAfterFailure ==
    /\ [](IdleAfterFailure =>
             /\ audio_handle = None
             /\ LiveWorkers = {}
             /\ WorkerPorts = {}
             /\ (spawnCalls < MaxCalls => ENABLED RestartClick))
    /\ [][(/\ spawnResult = "err"
           /\ spawnCalls' = spawnCalls + 1
           /\ sockets[realtime_config.udp_port] = FreePort)
          => /\ spawnResult' = "ok"
             /\ audio_handle' = SomeHandle(spawnCalls')
             /\ workers'[spawnCalls'].pc = "setup"
             /\ status_message'.text = "Applied"]_vars
    /\ (LoadingAfterFailure ~> EngineReady)

\* the third start succeeded after the first two had failed, and its engine
\* is at the receive loop
RunningAfterTwoFailures ==
    /\ spawnCalls = 3
    /\ workers[1].pc = "none"
    /\ workers[2].pc = "none"
    /\ workers[3].pc = "recv"
    /\ audio_handle = SomeHandle(3)
    /\ status_message.text = "Applied"

\* ------------------------------------------------------------------ C29
\* the last restart started an engine, which the controller still holds
RestartSucceeded ==
    /\ cpc = "idle"
    /\ status_message.text = "Applied"
    /\ audio_handle # None

ClosedLast == mmresult.u_msg = MODM_CLOSE

\* C30 as stated: the send socket is created by an open only when there is
\* none, reused by every short message, and torn down by a port-close
\* message.
SocketTornDownOnClose == ClosedLast => SOCKET = "None"

\* C30: the send socket is created at most once, by an open that finds none;
\* every short message that emits a packet uses it and leaves it in place;
\* no message removes it, MODM_CLOSE included.
SocketCreatedOnceAndKept ==
    [][/\ SOCKET = "Some" => SOCKET' = "Some"
       /\ SOCKET' # SOCKET =>
             /\ SOCKET = "None"
             /\ mmresult'.u_msg = MODM_OPEN
             /\ wire' = wire
       /\ wire' \ wire # {} =>
             /\ mmresult'.u_msg = MODM_DATA
             /\ SOCKET = "Some"
       /\ mmresult'.u_msg = MODM_CLOSE =>
             /\ SOCKET' = SOCKET
             /\ mmresult'.code = MMSYSERR_NOERROR]_vars

\* the socket an open created has carried a packet and is still there after
\* a MODM_CLOSE
SocketOpenAfterClose ==
    /\ ClosedLast
    /\ SOCKET = "Some"
    /\ wire # {}

\* ------------------------------------------------------------------ C31
\* this step is a call of modMessage with one of the given messages
DriverCall(msgs) == mmresult' # mmresult /\ mmresult'.u_msg \in msgs

\* C31: MODM_CLOSE, MODM_PREPARE and MODM_UNPREPARE return success and
\* MODM_LONGDATA returns the not-supported code; none of the four emits a
\* packet or changes the socket, whether or not a socket exists and whether
\* or not packets are under way.
NoOpMessages ==
    [][/\ DriverCall({MODM_CLOSE, MODM_PREPARE, MODM_UNPREPARE})
             => mmresult'.code = MMSYSERR_NOERROR
       /\ DriverCall({MODM_LONGDATA}) => mmresult'.code = MMSYSERR_NOTSUPPORTED
       /\ DriverCall({MODM_CLOSE, MODM_PREPARE, MODM_UNPREPARE, MODM_LONGDATA})
             => /\ SOCKET' = SOCKET
                /\ wire' = wire
                /\ workers' = workers]_vars

\* a long message has been refused while the socket exists and a packet is
\* under way
LongDataRefusedWhileOpen ==
    /\ mmresult = Returned(MODM_LONGDATA, MMSYSERR_NOTSUPPORTED)
    /\ SOCKET = "Some"
    /\ wire # {}

\* ------------------------------------------------------------------ C32
\* stop() has cleared the flag of worker w while w is still loading
CancelledWhileLoading(w) == ~is_running[w] /\ workers[w].pc \in LoadingPcs

\* worker w is at the head of its loop with all its banks processed, the
\* instruments assigned and 1.0 written
LoadedInFull(w) ==
    LET me == workers[w]
    IN  /\ Len(me.outcome) = Len(me.soundfonts)
        /\ (me.loaded_sfs # <<>> => Len(me.sent) = me.config.total_channels)
        /\ me.written # <<>>
        /\ me.written[Len(me.written)] = ProgressReady

\* C32: the worker reads the flag only at the head of the receive loop.  A
\* worker whose flag is cleared while it is loading goes on loading: it
\* leaves only from the head of the loop, where all banks are processed and
\* the instruments assigned; it never makes a receive attempt, never forwards
\* an audio event, and it exits.
StopWhileLoadingRunsThrough ==
    /\ [][\A w \in WorkerIds :
             (Alive(w) /\ workers'[w].pc = "exited") => workers[w].pc = "loop"]_vars
    /\ \A w \in WorkerIds :
          [](CancelledWhileLoading(w) =>
               /\ [](/\ workers[w].pc # "recv"
                     /\ workers[w].late = 0
                     /\ workers[w].dgram = <<>>
                     /\ AudioCount(workers[w].sent) = 0
                     /\ (workers[w].pc = "loop" => LoadedInFull(w)))
               /\ <>(workers[w].pc = "exited"))

\* the stop button was pressed while the worker had one of its two banks
\* left to load; the worker is now at the head of its loop
CancelledWorkerAtLoopHead ==
    \E w \in WorkerIds :
        /\ cpc = "stop_join"
        /\ handle.id = w
        /\ ~is_running[w]
        /\ workers[w].pc = "loop"
        /\ Len(workers[w].soundfonts) = 2
        /\ LoadedInFull(w)
        /\ workers[w].late = 0
        /\ workers[w].dgram = <<>>

\* ------------------------------------------------------------------ C33
\* the engine stopped and restarted from the settings view while the driver
\* goes on sending to its port
NextStopWire ==
    \/ AutoStart
    \/ RestartClick
    \/ RestartJoin
    \/ RestartSpawn
    \/ StopClick
    \/ StopJoin
    \/ StopFinish
    \/ ModOpen
    \/ \E msg \in BridgeMessages : ModData(0, msg)
    \/ \E w \in WorkerIds : WireWorkerStep(w)

SpecStopWire == InitWire /\ [][NextStopWire]_vars

\* audio.rs:22-31  stop() has returned to the controller for the instance w
StopReturnedFor(w) == handle.id = w /\ cpc \in {"stop_ret", "restart_spawn"}

\* audio.rs:155  the closure of instance w has returned, or it has panicked
Ended(w) == workers[w].pc \in {"exited", "panicked"}

\* C33: once stop() has returned for an instance, the thread of that instance
\* has ended for good: it forwards no event and takes no step any more, and
\* every later write of the progress value is a step of another instance or
\* of the controller, whatever the driver sends to the port.
QuietAfterStop ==
    /\ \A w \in WorkerIds : [](StopReturnedFor(w) => [](Ended(w) /\ workers[w].sent = <<>>))
    /\ [][\A w \in WorkerIds :
             Ended(w) =>
                /\ workers'[w] = workers[w]
                /\ (load_progress' # load_progress =>
                       \/ cpc' # cpc
                       \/ \E v \in WorkerIds \ {w} : workers'[v] # workers[v])]_vars

\* the stop button has stopped an instance that was in its receive loop, and
\* a packet of the driver is under way to the port the instance listened on
PacketAfterStop ==
    \E w \in WorkerIds :
        /\ cpc = "idle"
        /\ audio_handle = None
        /\ stopCalls > 0
        /\ workers[w].pc = "exited"
        /\ workers[w].late = 1
        /\ sockets[EnginePort] = FreePort
        /\ \E m \in wire : m.port = realtime_config.udp_port

\* ------------------------------------------------------------------ C34
\* lib.rs:89-96  the last call was an open and it left the driver without a
\* socket (lib.rs:35): its bind failed
OpenFailedLast == SOCKET = "None" /\ mmresult.u_msg = MODM_OPEN

\* C34: while the driver has no send socket no packet is under way and a
\* short message emits none, leaves the socket absent and returns
\* MMSYSERR_NOERROR; an open that leaves the socket absent returns
\* MMSYSERR_NOERROR too, and after it another open can bind the socket.
SilentWithoutSocket ==
    /\ [](SOCKET = "None" => wire = {})
    /\ [][(SOCKET = "None" /\ DriverCall({MODM_DATA})) =>
             /\ wire' = {}
             /\ SOCKET' = "None"
             /\ mmresult'.code = MMSYSERR_NOERROR]_vars
    /\ [][(DriverCall({MODM_OPEN}) /\ SOCKET' = "None") =>
             mmresult'.code = MMSYSERR_NOERROR]_vars
    /\ [](OpenFailedLast => ENABLED (ModOpen /\ SOCKET' = "Some"))

\* a short message was the last call, it returned success, the driver has no
\* socket and sent nothing, while the engine listens on the driver's port
ShortMessageDropped ==
    /\ SOCKET = "None"
    /\ mmresult = Returned(MODM_DATA, MMSYSERR_NOERROR)
    /\ wire = {}
    /\ \E w \in WorkerIds :
          /\ workers[w].pc \in LoopPcs
          /\ workers[w].config.udp_port = EnginePort
          /\ AudioCount(workers[w].sent) = 0
====
